---- MODULE Spec2Model ----
(***************************************************************************)
(* A model of htjdg.py: the FastAPI upload handler (upload, lines 63-107)  *)
(* and the Streamlit relay controller (run_streamlit_app, lines 216-293).  *)
(*                                                                         *)
(* File names are sequences of one-character strings, so that              *)
(* os.path.basename, os.path.splitext and the f-string that builds the     *)
(* candidate name are computed as Python computes them.                    *)
(*                                                                         *)
(* The storage directory follows POSIX: a directory entry maps a name to   *)
(* an inode, an open handle keeps its inode and its own offset, open(wb)   *)
(* truncates an existing inode, unlink removes the entry only.             *)
(***************************************************************************)
EXTENDS Integers, Sequences, FiniteSets, TLC

\* ------------------------------------------------------------------ bounds

\* Upload requests in one behaviour; all of them may be in flight together.
MaxUploads == 2
\* Longest request body, in bytes.
MaxBody == 1
\* Bytes a single file.read returns at most (4 MiB in the program, line 88).
CHUNK_SIZE == 1
\* The probe loop of lines 80-85 is unbounded; the model stops it here.
MaxCounter == 3

\* Requests are numbered in their order of arrival.
Requests == 1..MaxUploads

\* ------------------------------------------------------------ file names

SEP == "/"
EXTSEP == "."

Digit == <<"0", "1", "2", "3", "4", "5", "6", "7", "8", "9">>

\* str(n) for n >= 0, as the f-string of line 81 formats the counter.
RECURSIVE Str(_)
Str(n) == IF n < 10 THEN <<Digit[n + 1]>>
          ELSE Str(n \div 10) \o <<Digit[(n % 10) + 1]>>

\* p.rfind(c) + 1: the 1-based index of the last c in p, 0 when there is none.
RFind(p, c) ==
  LET hits == {i \in 1..Len(p) : p[i] = c}
  IN  IF hits = {} THEN 0 ELSE CHOOSE i \in hits : \A j \in hits : j <= i

\* A bug: the supplied name is used as it is.
WholeName(p) == p

\* os.path.basename(p) (posixpath): everything after the last separator.
Basename(p) == SubSeq(p, RFind(p, SEP) + 1, Len(p))

\* os.path.splitext(p) (genericpath._splitext): the extension starts at the
\* last dot, unless only dots precede it in the last component.
SplitExt(p) ==
  LET sepIndex == RFind(p, SEP)
      dotIndex == RFind(p, EXTSEP)
  IN  IF dotIndex > sepIndex
         /\ \E i \in (sepIndex + 1)..(dotIndex - 1) : p[i] # EXTSEP
      THEN <<SubSeq(p, 1, dotIndex - 1), SubSeq(p, dotIndex, Len(p))>>
      ELSE <<p, <<>>>>

\* f"{base}({counter}){ext}" of line 81.
Candidate(base, counter, ext) == base \o <<"(">> \o Str(counter) \o <<")">> \o ext

\* A bug: the counter advances by two.
SkipCounter(counter) == counter + 2

\* counter += 1 of line 85.
NextCounter(counter) == counter + 1

\* A bug: the empty name is not refused.
NeverEmpty(filename) == FALSE

\* `not filename` of line 72.
IsEmptyName(filename) == filename = <<>>

\* ------------------------------------------------------------ file system

\* The components of p between separators.
RECURSIVE Split(_)
Split(p) ==
  LET hits == {i \in 1..Len(p) : p[i] = SEP}
  IN  IF hits = {} THEN <<p>>
      ELSE LET i == CHOOSE i \in hits : \A j \in hits : i <= j
           IN  <<SubSeq(p, 1, i - 1)>> \o Split(SubSeq(p, i + 1, Len(p)))

\* Where UPLOAD_DIR / p (line 74, line 81) lies. The storage directory is
\* flat, so a named component that is not the last one has no directory to
\* enter; ".." leaves the storage directory; an absolute p replaces
\* UPLOAD_DIR. zone is "child" (a file directly in the storage directory),
\* "storage" (the directory itself), "outdir" (a directory outside),
\* "outside" (a file outside) or "invalid" (no such directory).
RECURSIVE Walk(_, _)
Walk(comps, zone) ==
  IF comps = <<>> THEN [zone |-> IF zone = "in" THEN "storage" ELSE "outdir", name |-> <<>>]
  ELSE LET c == Head(comps)
           rest == Tail(comps)
       IN  IF c = <<>> \/ c = <<".">> THEN Walk(rest, zone)
           ELSE IF c = <<".", ".">> THEN Walk(rest, "out")
           ELSE IF \A i \in 1..Len(rest) : rest[i] \in {<<>>, <<".">>}
                THEN IF rest = <<>>
                     THEN [zone |-> IF zone = "in" THEN "child" ELSE "outside", name |-> c]
                     ELSE [zone |-> "invalid", name |-> c]
           ELSE IF zone = "in" THEN [zone |-> "invalid", name |-> c]
           ELSE Walk(rest, "out")

Locate(p) ==
  IF p # <<>> /\ p[1] = SEP THEN
    LET w == Walk(Split(p), "out") IN [zone |-> w.zone, name |-> p]
  ELSE LET w == Walk(Split(p), "in")
       IN  [zone |-> w.zone, name |-> IF w.zone = "child" THEN w.name ELSE p]

\* ------------------------------------------------------------------ state

VARIABLES
  dir,        \* storage directory: file name -> inode
  data,       \* inode -> the bytes of the file (<<>> while the inode is free)
  escaped,    \* paths outside the storage directory created, truncated or deleted
  up,         \* per request: the locals of upload()
  stored,     \* history: the files success responses have named, as they were then
  ffmpeg_proc, \* st.session_state.ffmpeg_proc: None or a process
  procs,      \* every process Popen has launched, by pid
  log_lines,  \* the list `log_lines` of the latest script run
  lastRun     \* history: what the latest script run was and found

uploadVars == <<dir, data, escaped, up, stored>>
relayVars == <<ffmpeg_proc, procs, log_lines, lastRun>>
vars == <<dir, data, escaped, up, stored, ffmpeg_proc, procs, log_lines, lastRun>>

None == 0

Range(f) == {f[x] : x \in DOMAIN f}

\* Path.exists() of lines 77, 82, 101.
Exists(p) ==
  LET loc == Locate(p)
  IN  CASE loc.zone = "child" -> loc.name \in DOMAIN dir
        [] loc.zone = "storage" -> TRUE
        [] loc.zone = "outdir" -> TRUE
        [] loc.zone = "outside" -> loc.name \in escaped
        [] OTHER -> FALSE

\* A bug: the entry is not removed.
KeepEntry(d, name) == d

\* The directory without the entry `name`: Path.unlink() of line 102.
Unlink(d, name) == [n \in (DOMAIN d) \ {name} |-> d[n]]

\* The directory with `name` bound to inode `ino`.
Link(d, name, ino) == [n \in (DOMAIN d) \cup {name} |-> IF n = name THEN ino ELSE d[n]]

\* The bytes of a file after `chunk` is written at offset `off` of `content`
\* (a gap left by a truncation reads as zero bytes).
WriteAt(content, off, chunk) ==
  LET end == off + Len(chunk)
      n == IF Len(content) > end THEN Len(content) ELSE end
  IN  [i \in 1..n |-> IF i > off /\ i <= end THEN chunk[i - off]
                      ELSE IF i <= Len(content) THEN content[i] ELSE 0]

\* What request r may send: every byte of every body differs from every other
\* (by request and by position), so misplaced bytes show.
Body(r, n) == [i \in 1..n |-> 10 * r + i]
Bodies(r) == {Body(r, n) : n \in 0..MaxBody}

\* What the request may call its file (file.filename, line 71).
FileNames ==
  { <<>>,
    <<"a", ".", "m">>,
    <<".", ".">>,
    <<".", ".", "/", "a", ".", "m">>,
    <<"a", "/">> }

Fresh == [pc |-> "idle", supplied |-> <<>>, body |-> <<>>, dest |-> <<>>,
          base |-> <<>>, ext |-> <<>>, counter |-> 0, handle |-> None,
          made |-> None, offset |-> 0, pos |-> 0,
          total_written |-> 0, cause |-> "", cleanup |-> "",
          linked |-> FALSE, listed |-> FALSE, exact |-> FALSE, status |-> 0]

\* The storage directory persists between runs of the program (line 33).
InitNames == {<<"a", ".", "m">>}

\* Inodes are named after the request that creates them; the file that is
\* there from the start has its own.
OldInode == MaxUploads + 1
Inodes == 1..OldInode

\* An inode that no directory entry names and no handle holds is freed.
Release(dt, d, u) ==
  [i \in DOMAIN dt |->
     IF i \in Range(d) \/ \E r \in Requests : u[r].handle = i THEN dt[i] ELSE <<>>]

InitUpload ==
  /\ \E present \in SUBSET InitNames :
       /\ dir = [n \in present |-> OldInode]
       /\ data = [i \in Inodes |-> IF i = OldInode /\ present # {} THEN <<0>> ELSE <<>>]
  /\ escaped = {}
  /\ up = [r \in Requests |-> Fresh]
  /\ stored = {}

InitRelay ==
  /\ ffmpeg_proc = None
  /\ procs = <<>>
  /\ log_lines = [owner |-> None, lines |-> <<>>]
  /\ lastRun = [op |-> "none", outcome |-> "", stale |-> FALSE, video_path |-> <<>>,
                stream_key |-> <<>>, is_shorts |-> FALSE, cmd |-> <<>>]

Init == InitUpload /\ InitRelay

\* ----------------------------------------------------------------- upload

\* The handler has ended: its file handle and its locals are gone. What
\* stays is history: the answer, and whether, as the handler ended in
\* directory `d`, the file it created was still entered there (`linked`) and
\* its destination name was there (`listed`). The refused name is kept too.
\* On success, `exact` tells whether the destination then held exactly the
\* request body and size_bytes was its length.
Ended(u, d) ==
  [Fresh EXCEPT !.pc = u.pc, !.status = u.status, !.cause = u.cause,
                !.cleanup = u.cleanup,
                !.supplied = IF u.status = 400 THEN u.supplied ELSE <<>>,
                !.linked = (u.made # None /\ u.made \in Range(d)),
                !.listed = (u.dest \in DOMAIN d),
                !.exact = /\ u.status = 200
                          /\ u.dest \in DOMAIN d
                          /\ data[d[u.dest]] = u.body
                          /\ u.total_written = Len(u.body)]

Finished(r) == up[r].pc \in {"idle", "done", "cancelled"}

\* Lines 71-79: the request arrives with a file name and a body; the name is
\* sanitized, an empty name is refused, and the first existence check either
\* settles the destination or starts the probe loop.
Begin(r) ==
  /\ up[r].pc = "idle"
  /\ \A q \in 1..(r - 1) : up[q].pc # "idle"
  /\ \E f \in FileNames, b \in Bodies(r) :
       LET filename == Basename(f)
           se == SplitExt(filename)
           mine == [Fresh EXCEPT !.supplied = f, !.body = b]
       IN  up' = [up EXCEPT ![r] =
                    IF IsEmptyName(filename)
                    THEN Ended([mine EXCEPT !.pc = "done", !.status = 400], dir)
                    ELSE IF Exists(filename)
                    THEN [mine EXCEPT !.pc = "probe", !.dest = filename,
                                     !.base = se[1], !.ext = se[2], !.counter = 1]
                    ELSE [mine EXCEPT !.pc = "open", !.dest = filename]]
  /\ UNCHANGED <<dir, data, escaped, stored, relayVars>>

\* Lines 80-85: one turn of the probe loop.
Probe(r) ==
  /\ up[r].pc = "probe"
  /\ up[r].counter <= MaxCounter
  /\ LET candidate == Candidate(up[r].base, up[r].counter, up[r].ext)
     IN  up' = [up EXCEPT ![r] =
                  IF ~Exists(candidate)
                  THEN [@ EXCEPT !.pc = "open", !.dest = candidate]
                  ELSE [@ EXCEPT !.counter = NextCounter(@)]]
  /\ UNCHANGED <<dir, data, escaped, stored, relayVars>>

\* Line 91: aiofiles.open(dest_path, "wb") creates the file or truncates the
\* one that is there.
OpenOk(r) ==
  /\ up[r].pc = "open"
  /\ LET loc == Locate(up[r].dest)
     IN  \/ /\ loc.zone = "child"
            /\ loc.name \in DOMAIN dir
            /\ data' = [data EXCEPT ![dir[loc.name]] = <<>>]
            /\ up' = [up EXCEPT ![r].pc = "loop", ![r].handle = dir[loc.name]]
            /\ UNCHANGED <<dir, escaped>>
         \/ /\ loc.zone = "child"
            /\ loc.name \notin DOMAIN dir
            /\ data' = [data EXCEPT ![r] = <<>>]
            /\ dir' = Link(dir, loc.name, r)
            /\ up' = [up EXCEPT ![r].pc = "loop", ![r].handle = r, ![r].made = r]
            /\ UNCHANGED escaped
         \/ /\ loc.zone = "outside"
            /\ escaped' = escaped \cup {loc.name}
            /\ up' = [up EXCEPT ![r].pc = "loop"]
            /\ UNCHANGED <<dir, data>>
  /\ UNCHANGED <<stored, relayVars>>

\* Lines 93-97, one turn of the loop: file.read(CHUNK_SIZE) returns up to
\* CHUNK_SIZE bytes of the body, which go to the handle's inode at the
\* handle's offset. (The read touches nothing shared, so it is one step
\* with the write that follows it.)
Chunk(r) ==
  /\ up[r].pc = "loop"
  /\ LET left == Len(up[r].body) - up[r].pos
     IN  /\ left > 0
         /\ \E k \in 1..(IF left < CHUNK_SIZE THEN left ELSE CHUNK_SIZE) :
              LET chunk == SubSeq(up[r].body, up[r].pos + 1, up[r].pos + k)
              IN  /\ IF up[r].handle = None
                     THEN data' = data
                     ELSE data' = [data EXCEPT ![up[r].handle] =
                                     WriteAt(@, up[r].offset, chunk)]
                  /\ up' = [up EXCEPT ![r].pos = @ + k,
                                      ![r].offset = @ + Len(chunk),
                                      ![r].total_written = @ + Len(chunk)]
  /\ UNCHANGED <<dir, escaped, stored, relayVars>>

\* A bug: a failing cleanup takes the place of the cause.
CleanupDetail(why, how) == IF how = "failed" THEN "unlink" ELSE why

\* The cause in the detail of line 105: `e` is the exception of the outer
\* try; the inner except (lines 103-104) binds nothing.
Detail(why, how) == why

\* The 500 response of line 105, made in directory `d`.
Failed(u, why, how, d) ==
  Ended([u EXCEPT !.pc = "done", !.status = 500, !.cause = Detail(why, how),
                  !.cleanup = how], d)

\* Lines 99-105: remove the destination if it is there, swallow a failing
\* unlink, answer 500 with the cause.
Cleanup(r, why) ==
  /\ LET loc == Locate(up[r].dest)
     IN  IF ~Exists(up[r].dest)
         THEN /\ UNCHANGED <<dir, escaped>>
              /\ up' = [up EXCEPT ![r] = Failed(@, why, "absent", dir)]
         ELSE \/ /\ loc.zone = "child"
                 /\ dir' = Unlink(dir, loc.name)
                 /\ up' = [up EXCEPT ![r] = Failed(@, why, "unlinked", dir')]
                 /\ UNCHANGED escaped
              \/ /\ loc.zone = "outside"
                 /\ escaped' = escaped \cup {loc.name}
                 /\ up' = [up EXCEPT ![r] = Failed(@, why, "unlinked", dir)]
                 /\ UNCHANGED dir
              \/ /\ UNCHANGED <<dir, escaped>>
                 /\ up' = [up EXCEPT ![r] = Failed(@, why, "failed", dir)]
  /\ data' = Release(data, dir', up')
  /\ UNCHANGED <<stored, relayVars>>

\* Line 91 raising (no space, no permission, a directory, no such
\* directory): nothing was created; the except clause of lines 98-105 runs.
OpenFail(r) ==
  /\ up[r].pc = "open"
  /\ Cleanup(r, "open")

\* Line 93 or line 96 raising an Exception (the handler treats a failing
\* read and a failing write alike): the async with closes the file and the
\* except clause of lines 98-105 runs.
IoFail(r) ==
  /\ up[r].pc = "loop"
  /\ Cleanup(r, "chunk")

\* The request task is cancelled at an await of lines 93, 96:
\* asyncio.CancelledError is a BaseException, which `except Exception`
\* (line 98) does not catch; the async with closes the file and the
\* handler ends without a response.
Cancel(r) ==
  /\ up[r].pc = "loop"
  /\ up' = [up EXCEPT ![r] = Ended([@ EXCEPT !.pc = "cancelled"], dir)]
  /\ data' = Release(data, dir, up')
  /\ UNCHANGED <<dir, escaped, stored, relayVars>>

\* Lines 93-95 and 107: the read at the end of the body returns no bytes,
\* the loop ends, the file is closed and the success response names
\* dest_path.name and total_written.
Return(r) ==
  /\ up[r].pc = "loop"
  /\ up[r].pos = Len(up[r].body)
  /\ up' = [up EXCEPT ![r] = Ended([@ EXCEPT !.pc = "done", !.status = 200], dir)]
  /\ stored' = IF up[r].dest \in DOMAIN dir
               THEN stored \cup {[filename |-> up[r].dest,
                                  content |-> data[dir[up[r].dest]]]}
               ELSE stored
  /\ data' = Release(data, dir, up')
  /\ UNCHANGED <<dir, escaped, relayVars>>

UploadStep(r) ==
  \/ Begin(r)
  \/ Probe(r)
  \/ OpenOk(r)
  \/ OpenFail(r)
  \/ Chunk(r)
  \/ IoFail(r)
  \/ Cancel(r)
  \/ Return(r)

Next == \E r \in Requests : UploadStep(r)

Spec == Init /\ [][Next]_vars

\* Uploads one at a time: a request is accepted, and moves, only while no
\* other request is in flight.
Alone(r) == \A q \in Requests \ {r} : Finished(q)

NextSeq ==
  \/ \E r \in Requests : Alone(r) /\ Begin(r)
  \/ \E r \in Requests : Alone(r) /\ Probe(r)
  \/ \E r \in Requests : Alone(r) /\ OpenOk(r)
  \/ \E r \in Requests : Alone(r) /\ OpenFail(r)
  \/ \E r \in Requests : Alone(r) /\ Chunk(r)
  \/ \E r \in Requests : Alone(r) /\ IoFail(r)
  \/ \E r \in Requests : Alone(r) /\ Cancel(r)
  \/ \E r \in Requests : Alone(r) /\ Return(r)

SpecSeq == Init /\ [][NextSeq]_vars

\* ------------------------------------------------------------------ relay
\* Streamlit runs the script top to bottom on every interaction; only
\* st.session_state.ffmpeg_proc outlives a run. A run sees at most one button
\* pressed. `log_lines` is a new list in every run (line 235); a reader
\* thread keeps appending to the list of the run that started it.

\* Processes one behaviour may launch.
MaxProcs == 2
\* Lines one process may write to its pipe.
MaxLines == 2
\* How many lines log_box shows (30 in the program, line 240).
LOG_TAIL == 2

\* The list a script run starts with (line 235).
NewList == [owner |-> None, lines |-> <<>>]

\* A bug: the line is not kept.
DropLine(lines, s) == lines

\* append_log's list.append of line 238.
AppendLog(lines, s) == Append(lines, s)

\* log_lines[-30:] of line 240: the last LOG_TAIL lines.
LastLines(lines) ==
  IF Len(lines) <= LOG_TAIL THEN lines
  ELSE SubSeq(lines, Len(lines) - LOG_TAIL + 1, Len(lines))

\* What log_box holds: the text of line 240 for the list of the latest run.
LogBox == LastLines(log_lines.lines)

\* " ".join(cmd) of line 263. Every argument is a sequence of pieces of text.
RECURSIVE Join(_)
Join(args) ==
  IF args = <<>> THEN <<>>
  ELSE IF Len(args) = 1 THEN args[1]
  ELSE args[1] \o <<" ">> \o Join(Tail(args))

Blank == {" ", "\n"}

\* str.strip() of line 275: leading and trailing white space removed.
RECURSIVE Strip(_)
Strip(ln) ==
  IF ln = <<>> THEN ln
  ELSE IF Head(ln) \in Blank THEN Strip(Tail(ln))
  ELSE IF ln[Len(ln)] \in Blank THEN Strip(SubSeq(ln, 1, Len(ln) - 1))
  ELSE ln

\* The n-th line process p writes to its pipe, as readline returns it.
OutLine(p, n) == <<"out">> \o Str(p) \o <<":">> \o Str(n) \o <<"\n">>

\* What the widgets of lines 216-227 may hold in a run.
Placeholder == <<"-- pilih --">>
Selections == {Placeholder} \cup DOMAIN dir
StreamKeys == {<<>>, <<"k">>}

\* Lines 218-222: the path of the selected file, or None (here <<>>).
VideoPath(selected_file) ==
  IF selected_file # <<>> /\ selected_file # Placeholder
  THEN <<"uploads/">> \o selected_file
  ELSE <<>>

\* A bug: the transform is added whatever the option says.
AlwaysScale(is_shorts) == <<<<"-vf">>, <<"scale=720:1280">>>>

\* scale_arg of line 253.
ScaleArg(is_shorts) == IF is_shorts THEN <<<<"-vf">>, <<"scale=720:1280">>>> ELSE <<>>

\* Lines 253-261.
Cmd(video_path, stream_key, is_shorts) ==
  LET scale_arg == ScaleArg(is_shorts)
      output_url == <<"rtmp://a.rtmp.youtube.com/live2/">> \o stream_key
  IN  <<<<"ffmpeg">>, <<"-re">>, <<"-stream_loop">>, <<"-1">>, <<"-i">>, video_path,
        <<"-c:v">>, <<"libx264">>, <<"-preset">>, <<"veryfast">>, <<"-b:v">>, <<"2500k">>,
        <<"-maxrate">>, <<"2500k">>, <<"-bufsize">>, <<"5000k">>,
        <<"-g">>, <<"60">>, <<"-keyint_min">>, <<"60">>,
        <<"-c:a">>, <<"aac">>, <<"-b:a">>, <<"128k">>>>
      \o scale_arg \o <<<<"-f">>, <<"flv">>, output_url>>

Alive(p) == procs[p].alive

\* History only: whether the handle kept at the end of a run names a
\* process that has already exited.
Stale(handle, ps) == handle # None /\ ~ps[handle].alive

\* Once its reader has ended nobody reads the pipe of a process: what is
\* in it, and what the process still writes to it, is not kept.
Collect(ps) ==
  [p \in DOMAIN ps |->
     IF ps[p].reader = "ended"
     THEN [ps[p] EXCEPT !.emitted = 0, !.read = 0]
     ELSE ps[p]]

\* History: what a run did and found.
Ran(op, outcome, stale) ==
  [op |-> op, outcome |-> outcome, stale |-> stale, video_path |-> <<>>,
   stream_key |-> <<>>, is_shorts |-> FALSE, cmd |-> <<>>]

\* History: a run that pressed start, with what the widgets held; `is_shorts`
\* and `cmd` are those of a run that got as far as line 261.
RanStart(outcome, stale, video_path, stream_key, is_shorts, cmd) ==
  [op |-> "start", outcome |-> outcome, stale |-> stale, video_path |-> video_path,
   stream_key |-> stream_key, is_shorts |-> is_shorts, cmd |-> cmd]

\* A bug: the process is left running.
NoKill(ps, proc) == ps

\* proc.kill() of line 288.
Kill(ps, proc) == Collect([ps EXCEPT ![proc].alive = FALSE])

\* A bug: stop takes the process launched last, whatever the handle says.
LatestProc(handle) == Len(procs)

\* st.session_state.get("ffmpeg_proc") of line 286.
StopTarget(handle) == handle

\* A bug: a start launches whatever the widgets hold.
AllowAll(video_path, stream_key) == TRUE

\* Whether a run that pressed start launches at all (lines 246-251).
StartAllowed(video_path, stream_key) == video_path # <<>> /\ stream_key # <<>>

\* Lines 246-283: a run with "Mulai Streaming" pressed.
StartClick ==
  /\ \E selected_file \in Selections, stream_key \in StreamKeys, is_shorts \in BOOLEAN :
       LET video_path == VideoPath(selected_file)
           cmd == Cmd(video_path, stream_key, is_shorts)
           pid == Len(procs) + 1
           banner == AppendLog(NewList.lines, <<"Menjalankan: ">> \o Join(cmd))
       IN  IF ~StartAllowed(video_path, stream_key)
           THEN /\ log_lines' = NewList
                /\ UNCHANGED procs
                /\ lastRun' = RanStart(IF video_path = <<>> THEN "no_file" ELSE "no_key",
                                       Stale(ffmpeg_proc, procs), video_path, stream_key,
                                       FALSE, <<>>)
                /\ UNCHANGED ffmpeg_proc
           ELSE \/ /\ Len(procs) < MaxProcs
                   /\ procs' = Append(procs, [alive |-> TRUE,
                                            emitted |-> 0, read |-> 0, reader |-> "reading"])
                   /\ ffmpeg_proc' = pid
                   /\ log_lines' = [owner |-> pid, lines |-> banner]
                   /\ lastRun' = RanStart("launched", FALSE, video_path, stream_key, is_shorts, cmd)
                \/ /\ UNCHANGED procs
                   /\ log_lines' = [owner |-> None,
                                    lines |-> AppendLog(banner, <<"Gagal menjalankan ffmpeg: ">>)]
                   /\ lastRun' = RanStart("popen_failed", Stale(ffmpeg_proc, procs),
                                          video_path, stream_key, is_shorts, cmd)
                   /\ UNCHANGED ffmpeg_proc
  /\ UNCHANGED uploadVars

\* Lines 285-293: a run with "Hentikan Streaming" pressed. Popen.kill() on a
\* process that has already exited does nothing.
StopClick ==
  /\ LET proc == StopTarget(ffmpeg_proc)
     IN  IF proc # None
         THEN /\ procs' = Kill(procs, proc)
              /\ ffmpeg_proc' = None
              /\ log_lines' = [owner |-> None,
                               lines |-> AppendLog(NewList.lines, <<"ffmpeg dihentikan oleh user.">>)]
              /\ lastRun' = Ran("stop", "killed", ~procs[proc].alive)
         ELSE /\ UNCHANGED procs
              /\ log_lines' = NewList
              /\ lastRun' = Ran("stop", "nothing", FALSE)
              /\ UNCHANGED ffmpeg_proc
  /\ UNCHANGED uploadVars

\* A run with no button pressed (a widget changed, the page was reloaded):
\* lines 243-244 keep the handle, nothing polls the process.
Rerun ==
  /\ log_lines' = NewList
  /\ lastRun' = Ran("none", "", Stale(ffmpeg_proc, procs))
  /\ UNCHANGED <<ffmpeg_proc, procs>>
  /\ UNCHANGED uploadVars

\* The relay process writes a line to its stdout/stderr pipe.
ProcEmit(p) ==
  /\ Alive(p)
  /\ procs[p].emitted < MaxLines
  /\ procs' = Collect([procs EXCEPT ![p].emitted = @ + 1])
  /\ UNCHANGED <<ffmpeg_proc, log_lines, lastRun, uploadVars>>

\* The relay process exits on its own.
ProcExit(p) ==
  /\ Alive(p)
  /\ procs' = Collect([procs EXCEPT ![p].alive = FALSE])
  /\ UNCHANGED <<ffmpeg_proc, log_lines, lastRun, uploadVars>>

\* append_log(s) in p's reader thread, which then is as in ps. The thread
\* appends to the list of the run that started it. Once a later run has
\* made its own list, the earlier one is referred to by the thread alone
\* and nothing reads it: its content is not kept.
ReaderAppend(p, s, ps) ==
  /\ procs' = Collect(ps)
  /\ IF log_lines.owner = p
     THEN log_lines' = [log_lines EXCEPT !.lines = AppendLog(@, s)]
     ELSE UNCHANGED log_lines

\* Lines 272-275: readline returns the next line of the pipe.
ReaderLine(p) ==
  /\ procs[p].reader = "reading"
  /\ procs[p].read < procs[p].emitted
  /\ ReaderAppend(p, Strip(OutLine(p, procs[p].read + 1)), [procs EXCEPT ![p].read = @ + 1])
  /\ UNCHANGED <<ffmpeg_proc, lastRun, uploadVars>>

\* A bug: the end of the stream is never seen.
NeverEof(p) == FALSE

\* readline returns "" (line 272): the process is gone and the pipe drained.
AtEof(p) == procs[p].read = procs[p].emitted /\ ~Alive(p)

\* Line 272: at the end of the stream the loop and the thread end.
ReaderEof(p) ==
  /\ procs[p].reader = "reading"
  /\ AtEof(p)
  /\ procs' = Collect([procs EXCEPT ![p].reader = "ended"])
  /\ UNCHANGED <<ffmpeg_proc, log_lines, lastRun, uploadVars>>

\* Lines 276-277: reading raises; the thread logs it and ends.
ReaderError(p) ==
  /\ procs[p].reader = "reading"
  /\ ReaderAppend(p, <<"ffmpeg reader error: ">>, [procs EXCEPT ![p].reader = "ended"])
  /\ UNCHANGED <<ffmpeg_proc, lastRun, uploadVars>>

NextRelay ==
  \/ StartClick
  \/ StopClick
  \/ Rerun
  \/ \E p \in 1..Len(procs) : ProcEmit(p)
  \/ \E p \in 1..Len(procs) : ProcExit(p)
  \/ \E p \in 1..Len(procs) : ReaderLine(p)
  \/ \E p \in 1..Len(procs) : ReaderEof(p)
  \/ \E p \in 1..Len(procs) : ReaderError(p)

SpecRelay == Init /\ [][NextRelay]_vars

\* The reader is a running thread: readline returns as soon as the pipe
\* holds a line or is at its end.
Reading(p) == p \in 1..Len(procs) /\ (ReaderLine(p) \/ ReaderEof(p))

SpecRelayLive == SpecRelay /\ \A p \in 1..MaxProcs : WF_vars(Reading(p))

\* ----------------------------------------------------------------- claims

\* The request has settled its destination path and is at, or past, the
\* open of line 91.
Resolved(r) == up[r].pc \in {"open", "loop"}

AM == <<"a", ".", "m">>
AM1 == <<"a", "(", "1", ")", ".", "m">>
AM2 == <<"a", "(", "2", ")", ".", "m">>

\* C1: no two uploads that are in progress or completed hold the same
\* destination file name: two requests in flight have settled on different
\* names, and a request in flight has not settled on a name a success
\* response has already given out.
C1_DistinctDestinations ==
  /\ \A r1, r2 \in Requests :
       (r1 # r2 /\ Resolved(r1) /\ Resolved(r2)) => up[r1].dest # up[r2].dest
  /\ \A r \in Requests, s \in stored :
       Resolved(r) => up[r].dest # s.filename

\* C2: a file an upload has answered success for is still in the storage
\* directory, with the contents it had then, whatever other uploads do.
C2_StoredUntouched ==
  \A s \in stored :
    /\ s.filename \in DOMAIN dir
    /\ data[dir[s.filename]] = s.content

\* C3: when upload answers success, the destination file is in the storage
\* directory, holds exactly the request body, and size_bytes is its length.
C3_StoredExact ==
  \A r \in Requests :
    (up[r].pc = "done" /\ up[r].status = 200) => up[r].exact

\* C4: with uploads one at a time, name.ext resolves to name.ext when that
\* is unused and otherwise to name(k).ext for the smallest k >= 1 such that
\* name(k).ext is unused.
C4_SmallestUnused ==
  \A r \in Requests :
    up[r].pc = "open" =>
      LET name == Basename(up[r].supplied)
          se == SplitExt(name)
      IN  IF ~Exists(name) THEN up[r].dest = name
          ELSE \E k \in 1..MaxCounter :
                 /\ up[r].dest = se[1] \o <<"(">> \o Str(k) \o <<")">> \o se[2]
                 /\ ~Exists(up[r].dest)
                 /\ \A j \in 1..(k - 1) :
                      Exists(se[1] \o <<"(">> \o Str(j) \o <<")">> \o se[2])

\* C4 witness: a.m and a(1).m are stored and the upload of a.m resolves to a(2).m.
C4_Witness ==
  \E r \in Requests :
    /\ up[r].pc = "open"
    /\ up[r].supplied = AM
    /\ up[r].dest = AM2
    /\ {AM, AM1} \subseteq DOMAIN dir

\* C5: whatever name is supplied, the resolved destination is a direct
\* child of the storage directory and nothing outside it is created,
\* truncated or deleted.
C5_Confined ==
  /\ escaped = {}
  /\ \A r \in Requests :
       Resolved(r) => /\ up[r].dest \notin {<<>>, <<".">>, <<".", ".">>}
                      /\ \A i \in 1..Len(up[r].dest) : up[r].dest[i] # SEP

\* C5 witness: an upload named with parent-directory components and an
\* upload named ".." have each created their file and are writing it.
C5_Witness ==
  \E r1, r2 \in Requests :
    /\ up[r1].supplied = <<".", ".", "/", "a", ".", "m">>
    /\ up[r1].pc = "loop" /\ up[r1].made # None
    /\ up[r2].supplied = <<".", ".">>
    /\ up[r2].pc = "loop" /\ up[r2].made # None

\* C6: when an upload answers 500 after an I/O error and its unlink did not
\* fail, then as it answers the destination name is absent from the
\* directory and the file the upload created is in no directory entry.
C6_FailedUploadCleaned ==
  \A r \in Requests :
    (up[r].pc = "done" /\ up[r].status = 500 /\ up[r].cleanup # "failed") =>
      /\ up[r].cleanup \in {"absent", "unlinked"}
      /\ ~up[r].listed
      /\ ~up[r].linked

\* C6 witness: an upload failed in its read/write loop and answered 500 after
\* unlinking its destination.
C6_Witness ==
  \E r \in Requests :
    /\ up[r].pc = "done" /\ up[r].status = 500
    /\ up[r].cause = "chunk"
    /\ up[r].cleanup = "unlinked"

\* C7: when an upload is cancelled mid-transfer, the file it created is not
\* left in the storage directory.
C7_CancelledUploadCleaned ==
  \A r \in Requests :
    up[r].pc = "cancelled" => ~up[r].linked

\* The base name of f is empty.
EmptyBase(f) == f = <<>> \/ f[Len(f)] = SEP

\* C8: an upload is answered 400 exactly when the base name of the supplied
\* file name is empty; the step that answers 400 is the request's first,
\* and it leaves the storage directory, every file and everything outside
\* unchanged, with no file opened or created.
C8_EmptyNameRejected ==
  [][\A r \in Requests :
       LET u == up[r]
           v == up'[r]
       IN  /\ (u.pc = "idle" /\ v.pc # "idle") =>
                (EmptyBase(v.supplied) <=> (v.pc = "done" /\ v.status = 400))
           /\ v.pc \in {"probe", "open", "loop"} => ~EmptyBase(v.supplied)
           /\ (v # u /\ v.status = 400) =>
                /\ u.pc = "idle"
                /\ v.made = None /\ v.handle = None
                /\ dir' = dir /\ data' = data /\ escaped' = escaped]_vars

\* C8 witness: a name that ends in a separator has been refused with 400
\* while a file is stored.
C8_Witness ==
  \E r \in Requests :
    /\ up[r].pc = "done" /\ up[r].status = 400
    /\ up[r].supplied = <<"a", "/">>
    /\ DOMAIN dir # {}

\* C9: at most one relay process launched by the controller is alive.
C9_AtMostOneAlive ==
  Cardinality({p \in 1..Len(procs) : procs[p].alive}) <= 1

\* C10: a status query (a run with no button) or a stop never finds the
\* controller holding, as its active session, a process that has exited.
C10_NoStaleHandle ==
  lastRun.op \in {"none", "stop"} => ~lastRun.stale

\* The processes that are running.
Running(ps) == {p \in 1..Len(ps) : ps[p].alive}

\* C11: a stop with an active session kills the process the handle names
\* and releases the handle; from then on the handle stays released, and a
\* stop reports that there is nothing to stop, until a start launches a
\* process again.
C11_StopReleases ==
  /\ [](lastRun.op = "stop" => ffmpeg_proc = None)
  /\ [][/\ (ffmpeg_proc # None /\ lastRun' # lastRun /\ lastRun'.op = "stop") =>
             /\ lastRun'.outcome = "killed"
             /\ ffmpeg_proc' = None
             /\ ~procs'[ffmpeg_proc].alive
        /\ (ffmpeg_proc = None /\ lastRun' # lastRun /\ lastRun'.op = "stop") =>
             /\ lastRun'.outcome = "nothing"
             /\ ffmpeg_proc' = None
        /\ (ffmpeg_proc = None /\ ffmpeg_proc' # None) =>
             /\ lastRun'.op = "start"
             /\ lastRun'.outcome = "launched"]_vars

\* C11 witness: a stop has killed a running process and released the handle.
C11_Witness ==
  /\ lastRun.op = "stop" /\ lastRun.outcome = "killed" /\ ~lastRun.stale
  /\ ffmpeg_proc = None
  /\ Running(procs) = {}
  /\ Len(procs) = 1

\* C12: a stop with no active session kills nothing, leaves the handle
\* released and the processes as they are, and reports that there is
\* nothing to stop.
C12_StopWithoutSession ==
  [][(ffmpeg_proc = None /\ lastRun' # lastRun /\ lastRun'.op = "stop") =>
       /\ lastRun'.outcome = "nothing"
       /\ ffmpeg_proc' = ffmpeg_proc
       /\ Len(procs') = Len(procs)
       /\ Running(procs') = Running(procs)]_vars

\* C12 witness: a stop found nothing to stop after a session had been
\* started and stopped.
C12_Witness ==
  /\ lastRun.op = "stop" /\ lastRun.outcome = "nothing"
  /\ ffmpeg_proc = None
  /\ Len(procs) >= 1

\* The processes whose reader thread is running.
Readers(ps) == {p \in 1..Len(ps) : ps[p].reader = "reading"}

\* C13: a start with no file selected, or with an empty stream key,
\* launches no process, starts no reader thread and leaves the handle as
\* it was.
C13_StartNeedsInputs ==
  [][(/\ lastRun' # lastRun
      /\ lastRun'.op = "start"
      /\ (lastRun'.video_path = <<>> \/ lastRun'.stream_key = <<>>)) =>
       /\ lastRun'.outcome \in {"no_file", "no_key"}
       /\ Len(procs') = Len(procs)
       /\ Running(procs') = Running(procs)
       /\ Readers(procs') = Readers(procs)
       /\ ffmpeg_proc' = ffmpeg_proc]_vars

\* C13 witness: a start with a file selected and no stream key was refused
\* while a session was running.
C13_Witness ==
  /\ lastRun.op = "start" /\ lastRun.outcome = "no_key"
  /\ lastRun.video_path # <<>> /\ lastRun.stream_key = <<>>
  /\ ffmpeg_proc # None
  /\ Running(procs) # {}

\* C14: when Popen fails, the run ends normally with the failure as the
\* last line of its log, no process is launched and the handle is as it
\* was; and after such a run a start with valid inputs can still launch.
C14_LaunchFailureContained ==
  /\ [][(lastRun' # lastRun /\ lastRun'.outcome = "popen_failed") =>
          /\ log_lines'.lines # <<>>
          /\ log_lines'.lines[Len(log_lines'.lines)] = <<"Gagal menjalankan ffmpeg: ">>
          /\ LogBox'[Len(LogBox')] = <<"Gagal menjalankan ffmpeg: ">>
          /\ Len(procs') = Len(procs)
          /\ Running(procs') = Running(procs)
          /\ ffmpeg_proc' = ffmpeg_proc]_vars
  /\ []((lastRun.outcome = "popen_failed" /\ Len(procs) < MaxProcs) =>
          ENABLED (StartClick /\ lastRun'.outcome = "launched"))

\* C14 witness: a launch failed while no session was active, and the
\* handle is still None.
C14_Witness ==
  /\ lastRun.op = "start" /\ lastRun.outcome = "popen_failed"
  /\ ffmpeg_proc = None
  /\ Len(procs) = 0

\* The invocation without the vertical transform, for a given input and key.
PlainArgs(video_path, stream_key) ==
  <<<<"ffmpeg">>, <<"-re">>, <<"-stream_loop">>, <<"-1">>, <<"-i">>, video_path,
    <<"-c:v">>, <<"libx264">>, <<"-preset">>, <<"veryfast">>, <<"-b:v">>, <<"2500k">>,
    <<"-maxrate">>, <<"2500k">>, <<"-bufsize">>, <<"5000k">>,
    <<"-g">>, <<"60">>, <<"-keyint_min">>, <<"60">>,
    <<"-c:a">>, <<"aac">>, <<"-b:a">>, <<"128k">>,
    <<"-f">>, <<"flv">>, <<"rtmp://a.rtmp.youtube.com/live2/">> \o stream_key>>

\* C15: the invocation a start builds holds "-vf scale=720:1280" exactly
\* when the shorts option is set, and what is left of it without these two
\* arguments is the same whether the option is set or not.
C15_ScaleIffShorts ==
  lastRun.outcome \in {"launched", "popen_failed"} =>
    LET cmd == lastRun.cmd
        Other(a) == a \notin {<<"-vf">>, <<"scale=720:1280">>}
        has == \E i \in 1..(Len(cmd) - 1) :
                 cmd[i] = <<"-vf">> /\ cmd[i + 1] = <<"scale=720:1280">>
    IN  /\ has <=> lastRun.is_shorts
        /\ SelectSeq(cmd, Other) = PlainArgs(lastRun.video_path, lastRun.stream_key)
        /\ Len(cmd) = Len(PlainArgs(lastRun.video_path, lastRun.stream_key))
                        + (IF lastRun.is_shorts THEN 2 ELSE 0)

\* C15 witness: a process was launched with the shorts option set.
C15_Witness ==
  /\ lastRun.outcome = "launched"
  /\ lastRun.is_shorts
  /\ \E i \in 1..Len(lastRun.cmd) : lastRun.cmd[i] = <<"-vf">>

\* C16: once a relay process has exited or been killed, its reader thread
\* eventually ends: again and again every process that is gone has a reader
\* that has ended (a process that is gone stays gone and a reader that has
\* ended stays ended, so this holds for each of them from some point on).
\* And a reader that ends on an error while reading has logged the error in
\* its list.
C16_ReaderTerminates ==
  /\ []<>(\A p \in 1..Len(procs) : ~procs[p].alive => procs[p].reader = "ended")
  /\ [][\A p \in 1..Len(procs) :
          (/\ procs[p].reader = "reading" /\ procs'[p].reader = "ended"
           /\ ~(procs[p].read = procs[p].emitted /\ ~procs[p].alive)
           /\ log_lines.owner = p) =>
            log_lines'.lines = Append(log_lines.lines, <<"ffmpeg reader error: ">>)]_vars

\* C16 witness: a stop killed a running process and every reader thread
\* has ended.
C16_Witness ==
  /\ lastRun.op = "stop" /\ lastRun.outcome = "killed" /\ ~lastRun.stale
  /\ Len(procs) >= 1
  /\ Readers(procs) = {}

\* C17: however many lines the relay process has written, the log list
\* never holds more lines than the fixed number the log box shows.
C17_LogBounded ==
  Len(log_lines.lines) <= LOG_TAIL

\* The last n elements of a sequence.
LastN(seq, n) == SubSeq(seq, Len(seq) - n + 1, Len(seq))

\* C18: no line is lost and the order of appending is kept: in every step
\* the log shown either stays as it is or becomes the last LOG_TAIL lines of
\* what was shown followed by the lines appended in that step; and a
\* line a reader thread appends is the last line of the log shown after it.
C18_LogKeepsLines ==
  [][/\ \E k \in 0..Len(log_lines'.lines) :
          LogBox' = LastLines(LogBox \o LastN(log_lines'.lines, k))
     /\ \A p \in 1..Len(procs) :
          (procs[p].reader = "reading" /\ procs'[p].read = procs[p].read + 1) =>
            /\ LogBox' # <<>>
            /\ LogBox'[Len(LogBox')] = Strip(OutLine(p, procs'[p].read))]_vars

\* C19: when the removal of the partial file itself fails, the upload still
\* answers 500, never success, and the cause it reports is the I/O error
\* that made the upload fail, not the failure of the removal.
C19_CleanupFailureSwallowed ==
  \A r \in Requests :
    up[r].cleanup = "failed" =>
      /\ up[r].pc = "done"
      /\ up[r].status = 500
      /\ up[r].cause \in {"open", "chunk"}

\* C19 witness: an upload failed in its read/write loop, the unlink of its
\* partial file failed, and it answered 500 with the I/O cause.
C19_Witness ==
  \E r \in Requests :
    /\ up[r].pc = "done" /\ up[r].status = 500
    /\ up[r].cleanup = "failed"
    /\ up[r].cause = "chunk"
    /\ up[r].linked

====
